---------------------------- MODULE Spec2Model ----------------------------
(***************************************************************************)
(* The interactive data-grid engine of src/src/TicTacToeGPTV2.tsx: the     *)
(* TableState reducer, the intents of useTable, and the pure query         *)
(* pipeline (applyFilters, stableMultiSort).                               *)
(*                                                                         *)
(* Representation of JavaScript values:                                    *)
(*   - an optional number (width?, minWidth?, maxWidth?) is <<>> when      *)
(*     undefined and <<n>> when it is the number n;                        *)
(*   - a cell value is a record tagged by t: "null" (null or undefined),   *)
(*     "number" (v an integer) or "string" (v a sequence of UTF-16 code    *)
(*     units);                                                             *)
(*   - a string handled character by character (filter text, names) is a   *)
(*     sequence of code units; a column id is an atomic string.            *)
(***************************************************************************)
EXTENDS Integers, Sequences, FiniteSets, TLC

VARIABLES
  columns,  \* TableProps.columns: the column definitions (never changed)
  data,     \* TableProps.data: the rows (never changed)
  state,    \* the TableState held by useReducer
  last      \* the action dispatched last ([type |-> "INIT"] before any)

vars == <<columns, data, state, last>>

\* ------------------------------------------------------------------ bounds
MaxRows == 3
MaxUndefined == 1

\* ------------------------------------------------------------ JS helpers
Undef == <<>>
Some(n) == <<n>>

\* a ?? b on optional numbers
Coalesce(opt, dflt) == IF opt # Undef THEN opt[1] ELSE dflt

Min2(a, b) == IF a < b THEN a ELSE b
Max2(a, b) == IF a > b THEN a ELSE b

NullV == [t |-> "null"]
NumV(n) == [t |-> "number", v |-> n]
StrV(s) == [t |-> "string", v |-> s]

\* the value `undefined` stored as an element of a string array
Undefined == "undefined"

\* PinSide: "left" | "right" | null
NullPin == "null"
PinSides == {"left", "right", NullPin}

\* { ...map, [k]: v }
Assign(map, k, v) == [x \in (DOMAIN map) \cup {k} |-> IF x = k THEN v ELSE map[x]]

\* Array.prototype.filter / map / find on sequences
RECURSIVE FilterSeq(_, _)
FilterSeq(s, keep) ==
  IF s = <<>> THEN <<>>
  ELSE IF keep[Head(s)] THEN <<Head(s)>> \o FilterSeq(Tail(s), keep)
  ELSE FilterSeq(Tail(s), keep)

\* ------------------------------------------------------------------ utils
DefaultWidth == 160

\* function clamp(n, min?, max?)
clamp(n, min, max) ==
  IF min # Undef /\ n < min[1] THEN min[1]
  ELSE IF max # Undef /\ n > max[1] THEN max[1]
  ELSE n

\* function getValue(row, acc): acc is a key of the row or a function of it
getValue(row, acc) == IF acc.fn THEN row[acc.of] ELSE row[acc.key]

\* the getters of useTable: column id -> (r) => getValue(r, c.accessor)
Getters(cols) ==
  [id \in {cols[i].id : i \in 1..Len(cols)} |->
     cols[CHOOSE i \in 1..Len(cols) : cols[i].id = id].accessor]

\* getters[columnId]?.(row): undefined when the column has no getter
Getter(getters, columnId, row) ==
  IF columnId \in DOMAIN getters THEN getValue(row, getters[columnId]) ELSE NullV

\* a < b on strings: lexicographic on code units
RECURSIVE StrLess(_, _)
StrLess(a, b) ==
  IF b = <<>> THEN FALSE
  ELSE IF a = <<>> THEN TRUE
  ELSE IF a[1] < b[1] THEN TRUE
  ELSE IF a[1] > b[1] THEN FALSE
  ELSE StrLess(Tail(a), Tail(b))

\* va < vb on two defined cell values of one type
JsLess(va, vb) ==
  IF va.t = "number" /\ vb.t = "number" THEN va.v < vb.v
  ELSE IF va.t = "string" /\ vb.t = "string" THEN StrLess(va.v, vb.v)
  ELSE FALSE

\* SortCompare with the index tiebreak reversed (b.i - a.i)
RECURSIVE SortCompare_ReversedTie(_, _, _, _)
SortCompare_ReversedTie(a, b, sorts, getters) ==
  IF sorts = <<>> THEN b.i - a.i
  ELSE LET s == Head(sorts)
           va == Getter(getters, s.columnId, a.r)
           vb == Getter(getters, s.columnId, b.r)
       IN IF va.t = "null" /\ vb.t = "null"
          THEN SortCompare_ReversedTie(a, b, Tail(sorts), getters)
          ELSE IF va.t = "null" THEN (IF s.dir = "asc" THEN -1 ELSE 1)
          ELSE IF vb.t = "null" THEN (IF s.dir = "asc" THEN 1 ELSE -1)
          ELSE IF JsLess(va, vb) THEN (IF s.dir = "asc" THEN -1 ELSE 1)
          ELSE IF JsLess(vb, va) THEN (IF s.dir = "asc" THEN 1 ELSE -1)
          ELSE SortCompare_ReversedTie(a, b, Tail(sorts), getters)

\* SortCompare with the direction ignored for null values (null always first)
RECURSIVE SortCompare_NullsAlwaysFirst(_, _, _, _)
SortCompare_NullsAlwaysFirst(a, b, sorts, getters) ==
  IF sorts = <<>> THEN a.i - b.i
  ELSE LET s == Head(sorts)
           va == Getter(getters, s.columnId, a.r)
           vb == Getter(getters, s.columnId, b.r)
       IN IF va.t = "null" /\ vb.t = "null"
          THEN SortCompare_NullsAlwaysFirst(a, b, Tail(sorts), getters)
          ELSE IF va.t = "null" THEN -1
          ELSE IF vb.t = "null" THEN 1
          ELSE IF JsLess(va, vb) THEN (IF s.dir = "asc" THEN -1 ELSE 1)
          ELSE IF JsLess(vb, va) THEN (IF s.dir = "asc" THEN 1 ELSE -1)
          ELSE SortCompare_NullsAlwaysFirst(a, b, Tail(sorts), getters)

\* the comparator of stableMultiSort on two {r, i} pairs
RECURSIVE SortCompare(_, _, _, _)
SortCompare(a, b, sorts, getters) ==
  IF sorts = <<>> THEN a.i - b.i
  ELSE LET s == Head(sorts)
           va == Getter(getters, s.columnId, a.r)
           vb == Getter(getters, s.columnId, b.r)
       IN IF va.t = "null" /\ vb.t = "null"
          THEN SortCompare(a, b, Tail(sorts), getters)
          ELSE IF va.t = "null" THEN (IF s.dir = "asc" THEN -1 ELSE 1)
          ELSE IF vb.t = "null" THEN (IF s.dir = "asc" THEN 1 ELSE -1)
          ELSE IF JsLess(va, vb) THEN (IF s.dir = "asc" THEN -1 ELSE 1)
          ELSE IF JsLess(vb, va) THEN (IF s.dir = "asc" THEN 1 ELSE -1)
          ELSE SortCompare(a, b, Tail(sorts), getters)

\* Array.prototype.sort with the comparator above: x goes before the first
\* element it compares smaller than
RECURSIVE InsertSorted(_, _, _, _)
InsertSorted(x, done, sorts, getters) ==
  IF done = <<>> THEN <<x>>
  ELSE IF SortCompare(x, Head(done), sorts, getters) < 0 THEN <<x>> \o done
  ELSE <<Head(done)>> \o InsertSorted(x, Tail(done), sorts, getters)

RECURSIVE SortPairs(_, _, _)
SortPairs(pairs, sorts, getters) ==
  IF pairs = <<>> THEN <<>>
  ELSE InsertSorted(pairs[Len(pairs)],
                    SortPairs(SubSeq(pairs, 1, Len(pairs) - 1), sorts, getters),
                    sorts, getters)

\* function stableMultiSort(rows, sorts, getters)
stableMultiSort(rows, sorts, getters) ==
  IF Len(sorts) = 0 THEN rows
  ELSE LET withIndex == [i \in 1..Len(rows) |-> [r |-> rows[i], i |-> i]]
           done == SortPairs(withIndex, sorts, getters)
       IN [k \in 1..Len(done) |-> done[k].r]

\* String(n) for an integer n, as code units ("-" is 45, "0" is 48)
RECURSIVE Digits(_)
Digits(n) == IF n < 10 THEN <<48 + n>> ELSE Append(Digits(n \div 10), 48 + (n % 10))

\* String(v) for a defined cell value
JsString(v) == IF v.t = "string" THEN v.v
               ELSE IF v.v < 0 THEN <<45>> \o Digits(-v.v) ELSE Digits(v.v)

\* String.prototype.toLowerCase on ASCII: "A".."Z" (65..90) to "a".."z"
toLowerCase(str) ==
  [i \in 1..Len(str) |-> IF str[i] >= 65 /\ str[i] <= 90 THEN str[i] + 32 ELSE str[i]]

RECURSIVE StartsWith(_, _)
StartsWith(str, sub) ==
  IF sub = <<>> THEN TRUE
  ELSE IF str = <<>> THEN FALSE
  ELSE Head(str) = Head(sub) /\ StartsWith(Tail(str), Tail(sub))

\* String.prototype.includes: a search from each position in turn
RECURSIVE includes(_, _)
includes(str, sub) ==
  IF StartsWith(str, sub) THEN TRUE
  ELSE IF str = <<>> THEN FALSE
  ELSE includes(Tail(str), sub)

\* the predicate of applyFilters on one row and one filter
FilterAccepts(row, f, getters) ==
  LET v == Getter(getters, f.columnId, row)
      str == IF v.t = "null" THEN <<>> ELSE toLowerCase(JsString(v))
  IN includes(str, toLowerCase(f.value))

\* filters.every(...) on one row
RECURSIVE EveryFilter(_, _, _)
EveryFilter(row, filters, getters) ==
  IF filters = <<>> THEN TRUE
  ELSE FilterAccepts(row, Head(filters), getters)
       /\ EveryFilter(row, Tail(filters), getters)

\* applyFilters that keeps a row matching some filter (some for every)
RECURSIVE SomeFilter(_, _, _)
SomeFilter(row, filters, getters) ==
  IF filters = <<>> THEN FALSE
  ELSE FilterAccepts(row, Head(filters), getters)
       \/ SomeFilter(row, Tail(filters), getters)

RECURSIVE applyFilters_Some(_, _, _)
applyFilters_Some(rows, filters, getters) ==
  IF Len(filters) = 0 THEN rows
  ELSE IF rows = <<>> THEN <<>>
  ELSE IF SomeFilter(Head(rows), filters, getters)
       THEN <<Head(rows)>> \o applyFilters_Some(Tail(rows), filters, getters)
       ELSE applyFilters_Some(Tail(rows), filters, getters)

\* function applyFilters(rows, filters, getters)
RECURSIVE applyFilters(_, _, _)
applyFilters(rows, filters, getters) ==
  IF Len(filters) = 0 THEN rows
  ELSE IF rows = <<>> THEN <<>>
  ELSE IF EveryFilter(Head(rows), filters, getters)
       THEN <<Head(rows)>> \o applyFilters(Tail(rows), filters, getters)
       ELSE applyFilters(Tail(rows), filters, getters)

\* -------------------------------------------- the simple table (part_001)
\* function comparePrimitive(a, b) on null, numbers and strings
comparePrimitive(a, b) ==
  IF a.t = "null" /\ b.t = "null" THEN 0
  ELSE IF a.t = "null" THEN -1
  ELSE IF b.t = "null" THEN 1
  ELSE IF a.t = "number" /\ b.t = "number" THEN a.v - b.v
  ELSE LET sa == toLowerCase(JsString(a))
           sb == toLowerCase(JsString(b))
       IN IF StrLess(sa, sb) THEN -1 ELSE IF StrLess(sb, sa) THEN 1 ELSE 0

\* the comparator of DataTable.sorted on two {row, idx} pairs
DataTableCompare(a, b, accessor, direction) ==
  LET cmp == comparePrimitive(getValue(a.row, accessor), getValue(b.row, accessor))
      dir == IF direction = "asc" THEN 1 ELSE -1
  IN IF cmp # 0 THEN dir * cmp ELSE a.idx - b.idx

RECURSIVE DataTableInsert(_, _, _, _)
DataTableInsert(x, done, accessor, direction) ==
  IF done = <<>> THEN <<x>>
  ELSE IF DataTableCompare(x, Head(done), accessor, direction) < 0 THEN <<x>> \o done
  ELSE <<Head(done)>> \o DataTableInsert(x, Tail(done), accessor, direction)

RECURSIVE DataTableSortPairs(_, _, _)
DataTableSortPairs(pairs, accessor, direction) ==
  IF pairs = <<>> THEN <<>>
  ELSE DataTableInsert(pairs[Len(pairs)],
                       DataTableSortPairs(SubSeq(pairs, 1, Len(pairs) - 1),
                                          accessor, direction),
                       accessor, direction)

\* the sorted memo of DataTable: sort is {columnId, direction}, each
\* possibly null ("null")
DataTableSorted(rows, cols, sort) ==
  IF sort.columnId = "null" \/ sort.direction = "null" THEN rows
  ELSE IF ~\E i \in 1..Len(cols) : cols[i].id = sort.columnId THEN rows
  ELSE LET col == cols[CHOOSE i \in 1..Len(cols) : cols[i].id = sort.columnId]
           pairs == [i \in 1..Len(rows) |-> [row |-> rows[i], idx |-> i]]
           done == DataTableSortPairs(pairs, col.accessor, sort.direction)
       IN [k \in 1..Len(done) |-> done[k].row]

\* ---------------------------------------------------------------- reducer
\* c.id.startsWith("__pin"), over the ids the model uses
StartsWithPin(id) == id \in {"__pin", "__pinSelect"}

ColumnIds(cols) == {cols[i].id : i \in 1..Len(cols)}

\* columns.filter((c) => !c.id.startsWith("__pin")).map((c) => c.id)
InitialColumnOrder(cols) ==
  LET ids == [i \in 1..Len(cols) |-> cols[i].id]
  IN FilterSeq(ids, [id \in ColumnIds(cols) |-> ~StartsWithPin(id)])

ColumnById(cols, id) == cols[CHOOSE i \in 1..Len(cols) : cols[i].id = id]

\* createInitialState(columns, overrides) without overrides (DataTableDemo
\* passes no initialState)
createInitialState(cols) ==
  [ sortBy |-> <<>>,
    filters |-> <<>>,
    columnOrder |-> InitialColumnOrder(cols),
    columnPin |-> [id \in ColumnIds(cols) |-> NullPin],
    columnWidths |-> [id \in ColumnIds(cols) |->
                        Coalesce(ColumnById(cols, id).width, DefaultWidth)],
    pagination |-> [pageIndex |-> 0, pageSize |-> 25],
    scrollLeft |-> 0,
    scrollTop |-> 0,
    columnVisibility |-> [id \in ColumnIds(cols) |-> TRUE] ]

\* state.sortBy.find((s) => s.columnId === columnId): the index of the
\* first entry of the column, 0 when there is none
FindSort(sortBy, columnId) ==
  IF \E i \in 1..Len(sortBy) : sortBy[i].columnId = columnId
  THEN CHOOSE i \in 1..Len(sortBy) :
         /\ sortBy[i].columnId = columnId
         /\ \A j \in 1..(i - 1) : sortBy[j].columnId # columnId
  ELSE 0

\* state.sortBy.filter((s) => s.columnId !== columnId)
RECURSIVE WithoutColumn(_, _)
WithoutColumn(entries, columnId) ==
  IF entries = <<>> THEN <<>>
  ELSE IF Head(entries).columnId # columnId
       THEN <<Head(entries)>> \o WithoutColumn(Tail(entries), columnId)
       ELSE WithoutColumn(Tail(entries), columnId)

\* TOGGLE_SORT whose replacing branch keeps the other columns' entries
ToggleSortNext_KeepOthers(sortBy, columnId, multi) ==
  LET e == FindSort(sortBy, columnId)
      others == WithoutColumn(sortBy, columnId)
  IN IF e = 0 THEN Append(others, [columnId |-> columnId, dir |-> "asc"])
     ELSE IF sortBy[e].dir = "asc"
          THEN Append(others, [columnId |-> columnId, dir |-> "desc"])
          ELSE others

\* TOGGLE_SORT whose additive branch puts a new column first
ToggleSortNext_Prepend(sortBy, columnId, multi) ==
  LET e == FindSort(sortBy, columnId)
  IN IF ~multi
     THEN IF e = 0 THEN <<[columnId |-> columnId, dir |-> "asc"]>>
          ELSE IF sortBy[e].dir = "asc"
               THEN <<[columnId |-> columnId, dir |-> "desc"]>>
               ELSE <<>>
     ELSE LET others == WithoutColumn(sortBy, columnId)
          IN IF e = 0 THEN <<[columnId |-> columnId, dir |-> "asc"]>> \o others
             ELSE IF sortBy[e].dir = "asc"
                  THEN <<[columnId |-> columnId, dir |-> "desc"]>> \o others
                  ELSE others

\* TOGGLE_SORT whose additive branch pushes onto sortBy as it is
ToggleSortNext_PushOnly(sortBy, columnId, multi) ==
  LET e == FindSort(sortBy, columnId)
  IN IF ~multi
     THEN IF e = 0 THEN <<[columnId |-> columnId, dir |-> "asc"]>>
          ELSE IF sortBy[e].dir = "asc"
               THEN <<[columnId |-> columnId, dir |-> "desc"]>>
               ELSE <<>>
     ELSE IF e = 0 THEN Append(sortBy, [columnId |-> columnId, dir |-> "asc"])
          ELSE IF sortBy[e].dir = "asc"
               THEN Append(sortBy, [columnId |-> columnId, dir |-> "desc"])
               ELSE WithoutColumn(sortBy, columnId)

\* case "TOGGLE_SORT"
ToggleSortNext(sortBy, columnId, multi) ==
  LET e == FindSort(sortBy, columnId)
  IN IF ~multi
     THEN IF e = 0 THEN <<[columnId |-> columnId, dir |-> "asc"]>>
          ELSE IF sortBy[e].dir = "asc"
               THEN <<[columnId |-> columnId, dir |-> "desc"]>>
               ELSE <<>>
     ELSE LET others == WithoutColumn(sortBy, columnId)
          IN IF e = 0 THEN Append(others, [columnId |-> columnId, dir |-> "asc"])
             ELSE IF sortBy[e].dir = "asc"
                  THEN Append(others, [columnId |-> columnId, dir |-> "desc"])
                  ELSE others

\* SET_FILTER that appends without dropping the column's previous entry
SetFilterNext_Append(filters, filter) == Append(filters, filter)

\* case "SET_FILTER"
SetFilterNext(filters, filter) ==
  Append(WithoutColumn(filters, filter.columnId), filter)

\* case "CLEAR_FILTER"
ClearFilterNext(filters, columnId) == WithoutColumn(filters, columnId)

\* Array.prototype.splice: the index a start argument denotes (0-based)
ActualStart(len, start) ==
  IF start < 0 THEN Max2(len + start, 0) ELSE Min2(start, len)

\* arr.splice(start, deleteCount): the elements removed
SpliceRemoved(arr, start, deleteCount) ==
  LET from == ActualStart(Len(arr), start)
      n == Min2(Max2(deleteCount, 0), Len(arr) - from)
  IN SubSeq(arr, from + 1, from + n)

\* arr.splice(start, deleteCount): the array left
SpliceRest(arr, start, deleteCount) ==
  LET from == ActualStart(Len(arr), start)
      n == Min2(Max2(deleteCount, 0), Len(arr) - from)
  IN SubSeq(arr, 1, from) \o SubSeq(arr, from + n + 1, Len(arr))

\* arr.splice(start, 0, item): the array with item inserted
SpliceInsert(arr, start, item) ==
  LET from == ActualStart(Len(arr), start)
  IN SubSeq(arr, 1, from) \o <<item>> \o SubSeq(arr, from + 1, Len(arr))

\* REORDER_CENTER that exchanges the two positions
ReorderNext_Swap(order, sourceIndex, destIndex) ==
  IF sourceIndex \in 0..(Len(order) - 1) /\ destIndex \in 0..(Len(order) - 1)
  THEN [order EXCEPT ![sourceIndex + 1] = order[destIndex + 1],
                     ![destIndex + 1] = order[sourceIndex + 1]]
  ELSE order

\* REORDER_CENTER that inserts one place earlier when moving to the right
ReorderNext_AdjustDest(order, sourceIndex, destIndex) ==
  LET removed == SpliceRemoved(order, sourceIndex, 1)
      moved == IF removed = <<>> THEN Undefined ELSE removed[1]
      dest == IF sourceIndex < destIndex THEN destIndex - 1 ELSE destIndex
  IN SpliceInsert(SpliceRest(order, sourceIndex, 1), dest, moved)

\* case "REORDER_CENTER"
ReorderNext(order, sourceIndex, destIndex) ==
  LET removed == SpliceRemoved(order, sourceIndex, 1)
      moved == IF removed = <<>> THEN Undefined ELSE removed[1]
  IN SpliceInsert(SpliceRest(order, sourceIndex, 1), destIndex, moved)

\* PIN_COLUMN that also takes a pinned column out of columnOrder
PinColumnNext_DropsFromOrder(s, columnId, side) ==
  [s EXCEPT !.columnPin = Assign(s.columnPin, columnId, side),
            !.columnOrder = IF side = NullPin THEN s.columnOrder
                            ELSE SelectSeq(s.columnOrder, LAMBDA id : id # columnId)]

\* case "PIN_COLUMN"
PinColumnNext(s, columnId, side) ==
  [s EXCEPT !.columnPin = Assign(s.columnPin, columnId, side)]

\* case "RESIZE_COLUMN"
ResizeColumnNext(widths, columnId, width) == Assign(widths, columnId, width)

\* case "TOGGLE_COLUMN_VISIBILITY"
ToggleVisibilityNext(visibility, columnId, visible) ==
  Assign(visibility, columnId, visible)

\* case "SET_ALL_COLUMNS_VISIBILITY"
SetAllVisibilityNext(visibility, visible) ==
  [k \in DOMAIN visibility |-> visible]

reducer(s, a) ==
  CASE a.type = "SET_SORT" -> [s EXCEPT !.sortBy = a.payload]
    [] a.type = "REORDER_CENTER" ->
         [s EXCEPT !.columnOrder =
                     ReorderNext(s.columnOrder, a.sourceIndex, a.destIndex)]
    [] a.type = "PIN_COLUMN" -> PinColumnNext(s, a.columnId, a.side)
    [] a.type = "RESIZE_COLUMN" ->
         [s EXCEPT !.columnWidths =
                     ResizeColumnNext(s.columnWidths, a.columnId, a.width)]
    [] a.type = "SET_PAGINATION" -> [s EXCEPT !.pagination = a.payload]
    [] a.type = "SET_SCROLL" ->
         [s EXCEPT !.scrollLeft = a.left, !.scrollTop = a.top]
    [] a.type = "TOGGLE_COLUMN_VISIBILITY" ->
         [s EXCEPT !.columnVisibility =
                     ToggleVisibilityNext(s.columnVisibility, a.columnId, a.visible)]
    [] a.type = "SET_ALL_COLUMNS_VISIBILITY" ->
         [s EXCEPT !.columnVisibility =
                     SetAllVisibilityNext(s.columnVisibility, a.visible)]
    [] a.type = "TOGGLE_SORT" ->
         [s EXCEPT !.sortBy = ToggleSortNext(s.sortBy, a.columnId, a.multi)]
    [] a.type = "SET_FILTER" ->
         [s EXCEPT !.filters = SetFilterNext(s.filters, a.filter)]
    [] a.type = "CLEAR_FILTER" ->
         [s EXCEPT !.filters = ClearFilterNext(s.filters, a.columnId)]
    [] OTHER -> s

\* ------------------------------------------------------ reducer on a heap
\* The reducer again, with the arrays and objects it reads, creates and
\* changes as cells of a heap: a heap is a sequence of contents, an address is
\* an index of it. The state's arrays and maps are at the addresses 1..7 and
\* the state object, which holds these addresses and the two scroll numbers,
\* is at StateAddr.
FieldAddr ==
  [sortBy |-> 1, filters |-> 2, columnOrder |-> 3, columnPin |-> 4,
   columnWidths |-> 5, columnVisibility |-> 6, pagination |-> 7]

StateAddr == 8

HeapOf(s) ==
  << s.sortBy, s.filters, s.columnOrder, s.columnPin, s.columnWidths,
     s.columnVisibility, s.pagination,
     [f \in DOMAIN s |-> IF f \in DOMAIN FieldAddr THEN FieldAddr[f] ELSE s[f]] >>

\* the state whose object is at address obj
StateAt(h, obj) ==
  [f \in DOMAIN h[obj] |->
     IF f \in DOMAIN FieldAddr THEN h[h[obj][f]] ELSE h[obj][f]]

\* an array or object literal, a spread, filter, fromEntries: a new cell,
\* whose address is the new length of the heap
New(h, content) == Append(h, content)

\* arr.push(item): the cell itself changes
Push(h, addr, item) == [h EXCEPT ![addr] = Append(@, item)]

\* return { ...state, [field]: ref }
Returned(h, field, ref) ==
  LET h1 == New(h, [h[StateAddr] EXCEPT ![field] = ref])
  IN [heap |-> h1, ret |-> Len(h1)]

HeapToggleSort(h, columnId, multi) ==
  LET sortBy == h[h[StateAddr].sortBy]
      e == FindSort(sortBy, columnId)
      asc == [columnId |-> columnId, dir |-> "asc"]
      desc == [columnId |-> columnId, dir |-> "desc"]
      next == Len(h) + 1
      h1 == IF ~multi
            THEN IF e = 0 THEN New(h, <<asc>>)
                 ELSE IF sortBy[e].dir = "asc" THEN New(h, <<desc>>)
                      ELSE New(h, <<>>)
            ELSE LET h0 == New(h, WithoutColumn(sortBy, columnId))
                 IN IF e = 0 THEN Push(h0, next, asc)
                    ELSE IF sortBy[e].dir = "asc" THEN Push(h0, next, desc)
                         ELSE h0
  IN Returned(h1, "sortBy", next)

HeapSetFilter(h, filter) ==
  LET h1 == New(h, WithoutColumn(h[h[StateAddr].filters], filter.columnId))
      others == Len(h1)
      h2 == New(h1, Append(h1[others], filter))
  IN Returned(h2, "filters", Len(h2))

HeapClearFilter(h, columnId) ==
  LET h1 == New(h, WithoutColumn(h[h[StateAddr].filters], columnId))
  IN Returned(h1, "filters", Len(h1))

\* REORDER_CENTER with arr = state.columnOrder in place of the copy
HeapReorder_NoCopy(h, sourceIndex, destIndex) ==
  LET arr == h[StateAddr].columnOrder
      removed == SpliceRemoved(h[arr], sourceIndex, 1)
      moved == IF removed = <<>> THEN Undefined ELSE removed[1]
      h2 == [h EXCEPT ![arr] = SpliceRest(@, sourceIndex, 1)]
      h3 == [h2 EXCEPT ![arr] = SpliceInsert(@, destIndex, moved)]
  IN Returned(h3, "columnOrder", arr)

\* case "REORDER_CENTER": the two splices change the copy arr
HeapReorder(h, sourceIndex, destIndex) ==
  LET h1 == New(h, h[h[StateAddr].columnOrder])
      arr == Len(h1)
      removed == SpliceRemoved(h1[arr], sourceIndex, 1)
      moved == IF removed = <<>> THEN Undefined ELSE removed[1]
      h2 == [h1 EXCEPT ![arr] = SpliceRest(@, sourceIndex, 1)]
      h3 == [h2 EXCEPT ![arr] = SpliceInsert(@, destIndex, moved)]
  IN Returned(h3, "columnOrder", arr)

\* { ...state[field], [key]: value } stored as state[field]
HeapAssign(h, field, key, value) ==
  LET h1 == New(h, Assign(h[h[StateAddr][field]], key, value))
  IN Returned(h1, field, Len(h1))

HeapSetAllVisibility(h, visible) ==
  LET h1 == New(h, SetAllVisibilityNext(h[h[StateAddr].columnVisibility], visible))
  IN Returned(h1, "columnVisibility", Len(h1))

\* action.payload is an array or object of the caller's: a cell of its own
HeapPayload(h, field, payload) ==
  LET h1 == New(h, payload)
  IN Returned(h1, field, Len(h1))

HeapSetScroll(h, left, top) ==
  LET h1 == New(h, [h[StateAddr] EXCEPT !.scrollLeft = left, !.scrollTop = top])
  IN [heap |-> h1, ret |-> Len(h1)]

HeapReducer(h, a) ==
  CASE a.type = "SET_SORT" -> HeapPayload(h, "sortBy", a.payload)
    [] a.type = "TOGGLE_SORT" -> HeapToggleSort(h, a.columnId, a.multi)
    [] a.type = "SET_FILTER" -> HeapSetFilter(h, a.filter)
    [] a.type = "CLEAR_FILTER" -> HeapClearFilter(h, a.columnId)
    [] a.type = "REORDER_CENTER" -> HeapReorder(h, a.sourceIndex, a.destIndex)
    [] a.type = "PIN_COLUMN" -> HeapAssign(h, "columnPin", a.columnId, a.side)
    [] a.type = "RESIZE_COLUMN" ->
         HeapAssign(h, "columnWidths", a.columnId, a.width)
    [] a.type = "SET_PAGINATION" -> HeapPayload(h, "pagination", a.payload)
    [] a.type = "SET_SCROLL" -> HeapSetScroll(h, a.left, a.top)
    [] a.type = "TOGGLE_COLUMN_VISIBILITY" ->
         HeapAssign(h, "columnVisibility", a.columnId, a.visible)
    [] a.type = "SET_ALL_COLUMNS_VISIBILITY" -> HeapSetAllVisibility(h, a.visible)
    [] OTHER -> [heap |-> h, ret |-> StateAddr]

\* ---------------------------------------------------------------- intents
Dispatch(a) ==
  /\ state' = reducer(state, a)
  /\ last' = a
  /\ UNCHANGED <<columns, data>>

toggleSort(columnId, multi) ==
  Dispatch([type |-> "TOGGLE_SORT", columnId |-> columnId, multi |-> multi])

setFilter(columnId, value) ==
  Dispatch([type |-> "SET_FILTER",
            filter |-> [columnId |-> columnId, value |-> value]])

clearFilter(columnId) ==
  Dispatch([type |-> "CLEAR_FILTER", columnId |-> columnId])

pinColumn(columnId, side) ==
  Dispatch([type |-> "PIN_COLUMN", columnId |-> columnId, side |-> side])

\* resizeColumn(columnId, width, def): def is the column's definition, as at
\* every call of it (onResize={(w) => resizeColumn(col.id, w, col)})
resizeColumn(columnId, width, def) ==
  Dispatch([type |-> "RESIZE_COLUMN", columnId |-> columnId,
            width |-> clamp(width, def.minWidth, def.maxWidth)])

\* reorderCenter(sourceIndex, destIndex); a reorder that removes nothing
\* inserts undefined, which the model lets happen MaxUndefined times
reorderCenter(sourceIndex, destIndex) ==
  /\ Len(SelectSeq(ReorderNext(state.columnOrder, sourceIndex, destIndex),
                   LAMBDA id : id = Undefined)) <= MaxUndefined
  /\ Dispatch([type |-> "REORDER_CENTER", sourceIndex |-> sourceIndex,
               destIndex |-> destIndex])

toggleColumnVisibility(columnId, visible) ==
  Dispatch([type |-> "TOGGLE_COLUMN_VISIBILITY", columnId |-> columnId,
            visible |-> visible])

setAllColumnsVisibility(visible) ==
  Dispatch([type |-> "SET_ALL_COLUMNS_VISIBILITY", visible |-> visible])

\* setPagination(p): the payload is stored as it is
setPagination(p) ==
  Dispatch([type |-> "SET_PAGINATION", payload |-> p])

\* ------------------------------------------------------------ column sets
KeyAcc(k) == [fn |-> FALSE, key |-> k]
FnAcc(f) == [fn |-> TRUE, of |-> f]

Col(id, acc, w, mn, mx) ==
  [id |-> id, accessor |-> acc, width |-> w, minWidth |-> mn, maxWidth |-> mx]

\* the columns of DataTableDemo
NameCol == Col("name", KeyAcc("name"), Some(180), Undef, Undef)
AgeCol == Col("age", FnAcc("age"), Some(100), Some(80), Undef)
CityCol == Col("city", KeyAcc("city"), Undef, Undef, Undef)
TitleCol == Col("title", KeyAcc("title"), Undef, Undef, Undef)

DemoColumns == <<NameCol, AgeCol, CityCol, TitleCol>>

\* a selection column whose id has the "__pin" prefix
PinSelectCol == Col("__pinSelect", KeyAcc("id"), Some(40), Some(40), Some(40))

\* a narrow column: no preferred width, at most 120 px wide
NarrowCol == Col("city", KeyAcc("city"), Undef, Some(60), Some(120))

\* names, as code units
Alice == <<65, 108, 105, 99, 101>>
Bob == <<66, 111, 98>>
Carlos == <<67, 97, 114, 108, 111, 115>>
Tokyo == <<84, 111, 107, 121, 111>>
Pm == <<80, 77>>

Person(id, name, age) ==
  [id |-> id, name |-> name, age |-> age, city |-> StrV(Tokyo), title |-> StrV(Pm)]

DemoData == <<Person(1, StrV(Alice), NumV(28)), Person(2, StrV(Bob), NullV)>>

\* twelve people, of ages 28, 34, 41, 24, 31, 29, 26, 36, 33, 27, 45, 30
TwelveAges == <<28, 34, 41, 24, 31, 29, 26, 36, 33, 27, 45, 30>>
TwelveNames == <<Alice, Bob, Carlos>>

TwelvePeople ==
  [i \in 1..Len(TwelveAges) |->
     Person(i, StrV(TwelveNames[(i % 3) + 1]), NumV(TwelveAges[i]))]

\* the derived values of useTable (useMemo)
getters == Getters(columns)
filtered == applyFilters(data, state.filters, getters)
sorted == stableMultiSort(filtered, state.sortBy, getters)

\* the regions of useTable: the visible columns pinned left, pinned right and
\* unpinned, the first three in definition order
Region(cols, s, side) ==
  SelectSeq(cols, LAMBDA c : /\ c.id \in DOMAIN s.columnVisibility
                             /\ s.columnVisibility[c.id]
                             /\ c.id \in DOMAIN s.columnPin
                             /\ s.columnPin[c.id] = side)

LeftPinned(cols, s) == Region(cols, s, "left")
RightPinned(cols, s) == Region(cols, s, "right")
CenterAll(cols, s) == Region(cols, s, NullPin)

\* state.columnOrder.map((id) => centerById[id]).filter(Boolean)
CenterOrdered(cols, s) ==
  LET center == CenterAll(cols, s)
      known == SelectSeq(s.columnOrder, LAMBDA id : id \in ColumnIds(center))
  IN [k \in 1..Len(known) |-> ColumnById(center, known[k])]

leftPinned == LeftPinned(columns, state)
rightPinned == RightPinned(columns, state)
centerAll == CenterAll(columns, state)
centerOrdered == CenterOrdered(columns, state)

\* state.columnWidths[c.id] ?? c.width ?? 160
WidthOf(c, s) ==
  IF c.id \in DOMAIN s.columnWidths THEN s.columnWidths[c.id]
  ELSE Coalesce(c.width, DefaultWidth)

\* centerOrdered.map((c) => state.columnWidths[c.id] ?? c.width ?? 160)
CenterWidths(cols, s) ==
  LET center == CenterOrdered(cols, s)
  IN [k \in 1..Len(center) |-> WidthOf(center[k], s)]

\* for (const c of leftPinned) { arr.push(acc); acc += width of c }
RECURSIVE LeftOffsetsFrom(_, _, _)
LeftOffsetsFrom(list, s, acc) ==
  IF list = <<>> THEN <<>>
  ELSE <<acc>> \o LeftOffsetsFrom(Tail(list), s, acc + WidthOf(Head(list), s))

LeftOffsets(list, s) == LeftOffsetsFrom(list, s, 0)

\* for (i = length - 1; i >= 0; i--) { arr.unshift(acc); acc += width of
\* rightPinned[i] }
RECURSIVE RightOffsetsFrom(_, _, _)
RightOffsetsFrom(list, s, acc) ==
  IF list = <<>> THEN <<>>
  ELSE RightOffsetsFrom(SubSeq(list, 1, Len(list) - 1), s,
                        acc + WidthOf(list[Len(list)], s)) \o <<acc>>

\* right offsets accumulated from the left, as the left ones are
RightOffsets_FromLeft(list, s) == LeftOffsetsFrom(list, s, 0)

RightOffsets(list, s) == RightOffsetsFrom(list, s, 0)

\* reduce((a, c) => a + width of c, 0)
RECURSIVE TotalWidth(_, _)
TotalWidth(list, s) ==
  IF list = <<>> THEN 0
  ELSE TotalWidth(SubSeq(list, 1, Len(list) - 1), s) + WidthOf(list[Len(list)], s)

\* centerWidths.reduce((a, b) => a + b, 0)
RECURSIVE SumSeq(_)
SumSeq(ns) == IF ns = <<>> THEN 0 ELSE SumSeq(SubSeq(ns, 1, Len(ns) - 1)) + ns[Len(ns)]

leftOffsets == LeftOffsets(leftPinned, state)
rightOffsets == RightOffsets(rightPinned, state)
centerWidths == CenterWidths(columns, state)
totalCenterWidth == SumSeq(centerWidths)
totalLeftWidth == TotalWidth(leftPinned, state)
totalRightWidth == TotalWidth(rightPinned, state)

\* ids.indexOf(id): the 0-based index of the first occurrence, -1 if none
IndexOf(ids, id) ==
  IF \E k \in 1..Len(ids) : ids[k] = id
  THEN (CHOOSE k \in 1..Len(ids) :
          ids[k] = id /\ \A j \in 1..(k - 1) : ids[j] # id) - 1
  ELSE -1

\* event.over of a drag that ends over nothing
NoOver == "null"
\* what onDragEnd emits when it returns early
NoIntent == [type |-> "NONE"]

\* onDragEnd without the test of the two indices against -1
OnDragEndIntent_NoIndexCheck(cols, s, active, over) ==
  IF over = NoOver \/ active = over THEN NoIntent
  ELSE LET center == CenterOrdered(cols, s)
           ids == [k \in 1..Len(center) |-> center[k].id]
       IN [type |-> "REORDER_CENTER", sourceIndex |-> IndexOf(ids, active),
           destIndex |-> IndexOf(ids, over)]

\* DataTable.onDragEnd: the intent it emits for a drag of active that ends
\* over over
OnDragEndIntent(cols, s, active, over) ==
  IF over = NoOver \/ active = over THEN NoIntent
  ELSE LET center == CenterOrdered(cols, s)
           ids == [k \in 1..Len(center) |-> center[k].id]
           oldIndex == IndexOf(ids, active)
           newIndex == IndexOf(ids, over)
       IN IF oldIndex = -1 \/ newIndex = -1 THEN NoIntent
          ELSE [type |-> "REORDER_CENTER", sourceIndex |-> oldIndex,
                destIndex |-> newIndex]

\* a drag that ends: the reorder is dispatched, or nothing is and the drag is
\* the last event
onDragEnd(active, over) ==
  LET intent == OnDragEndIntent(columns, state, active, over)
  IN IF intent = NoIntent
     THEN /\ last' = [type |-> "DRAG_END", active |-> active, over |-> over]
          /\ UNCHANGED <<columns, data, state>>
     ELSE reorderCenter(intent.sourceIndex, intent.destIndex)

\* Array.prototype.slice(start, end): a negative index counts from the end,
\* and both indices are clamped to the array
SliceIndex(len, i) == IF i < 0 THEN Max2(len + i, 0) ELSE Min2(i, len)

Slice(arr, start, end) ==
  LET from == SliceIndex(Len(arr), start)
      to == SliceIndex(Len(arr), end)
  IN IF from < to THEN SubSeq(arr, from + 1, to) ELSE <<>>

\* PageSlice with an end one too far
PageSlice_InclusiveEnd(rows, pagination) ==
  LET start == pagination.pageIndex * pagination.pageSize
  IN Slice(rows, start, start + pagination.pageSize + 1)

\* PageSlice with pages counted from one
PageSlice_OneBased(rows, pagination) ==
  LET start == (pagination.pageIndex - 1) * pagination.pageSize
  IN Slice(rows, start, start + pagination.pageSize)

\* the page of useTable: sorted.slice(start, start + pageSize)
PageSlice(rows, pagination) ==
  LET start == pagination.pageIndex * pagination.pageSize
  IN Slice(rows, start, start + pagination.pageSize)

paged == PageSlice(sorted, state.pagination)

\* the page of the simple DataTable: sorted.slice(pageStart, pageEnd)
DataTablePaged(rows, page, pageSize) ==
  LET total == Len(rows)
      pageStart == page * pageSize
      pageEnd == Min2(pageStart + pageSize, total)
  IN Slice(rows, pageStart, pageEnd)

\* the options of the two virtualizers: rowVirtual counts the rows of the
\* page, centerColVirtual the center columns, whose sizes are centerWidths[i]
\* ?? 160 (i from 0)
rowVirtualCount_AllRows == Len(sorted)

rowVirtualCount == Len(paged)

centerColVirtualCount == Len(centerOrdered)

CenterColEstimateSize(i) ==
  IF i + 1 \in 1..Len(centerWidths) THEN centerWidths[i + 1] ELSE DefaultWidth

\* the rows the body renders for a window of row indices (from 0):
\* table.pageRows[vi.index], none where there is no row
BodyRows(pageRows, window) ==
  {pageRows[i + 1] : i \in {j \in window : j + 1 \in 1..Len(pageRows)}}

\* the columns whose cells a Row renders for a window of center column
\* indices: every left-pinned one, centerOrdered[vi.index] for the indices of
\* the window, every right-pinned one
RowCellColumns(left, center, right, window) ==
  [ left |-> ColumnIds(left),
    center |-> {center[i + 1].id : i \in {j \in window : j + 1 \in 1..Len(center)}},
    right |-> ColumnIds(right) ]

\* Math.ceil(a / b) for a >= 0 and b > 0
CeilDiv(a, b) == (a + b - 1) \div b

\* the Footer of DataTable: the page count is taken from props.data
FooterTotalPages == Max2(1, CeilDiv(Len(data), state.pagination.pageSize))

FooterSetPage(p) ==
  setPagination([pageIndex |-> clamp(p, Some(0), Some(FooterTotalPages - 1)),
                 pageSize |-> state.pagination.pageSize])

\* the four buttons, each with its disabled condition
FooterFirst == state.pagination.pageIndex # 0 /\ FooterSetPage(0)

FooterPrev ==
  state.pagination.pageIndex # 0 /\ FooterSetPage(state.pagination.pageIndex - 1)

FooterNext ==
  /\ ~(state.pagination.pageIndex >= FooterTotalPages - 1)
  /\ FooterSetPage(state.pagination.pageIndex + 1)

FooterLast ==
  /\ ~(state.pagination.pageIndex >= FooterTotalPages - 1)
  /\ FooterSetPage(FooterTotalPages - 1)

\* the Rows select and its options
FooterPageSizes == {10, 25, 50, 100}

FooterSetPageSize(n) == setPagination([pageIndex |-> 0, pageSize |-> n])

\* ------------------------------------------------------------ simple table
\* The table of src/src/DataTable/DataTable.tsx: its state holds pagination,
\* filters and sorts, its columns a columnId and an accessor. What has the
\* name of a definition of the grid is prefixed with Simple.
SimpleCol(columnId, acc) == [columnId |-> columnId, accessor |-> acc]

SimpleColumns ==
  << SimpleCol("name", KeyAcc("name")), SimpleCol("age", KeyAcc("age")),
     SimpleCol("city", FnAcc("city")), SimpleCol("title", KeyAcc("title")) >>

\* a column id as the string it is, in code units
IdText(columnId) ==
  CASE columnId = "name" -> <<110, 97, 109, 101>>
    [] columnId = "age" -> <<97, 103, 101>>
    [] columnId = "city" -> <<99, 105, 116, 121>>
    [] columnId = "title" -> <<116, 105, 116, 108, 101>>

\* createInitialState(overrides): the defaults, then ...overrides
SimpleCreateInitialState(overrides) ==
  LET defaults == [ filters |-> <<>>, sorts |-> <<>>,
                    pagination |-> [pageSize |-> 10, pageIndex |-> 0] ]
  IN [f \in DOMAIN defaults |->
        IF f \in DOMAIN overrides THEN overrides[f] ELSE defaults[f]]

\* case "SET_FILTER": state.filters.filter((f) => f.columnId !== filter.value)
\* and then [...newFilters, filter]
SimpleSetFilterNext(filters, filter) ==
  Append(SelectSeq(filters, LAMBDA f : IdText(f.columnId) # filter.value), filter)

SimpleReducer(s, a) ==
  CASE a.type = "SET_PAGINATION" -> [s EXCEPT !.pagination = a.payload.pagination]
    [] a.type = "SET_FILTER" ->
         [s EXCEPT !.filters = SimpleSetFilterNext(s.filters, a.payload.filter)]
    [] OTHER -> s

SimpleDispatch(a) ==
  /\ state' = SimpleReducer(state, a)
  /\ last' = a
  /\ UNCHANGED <<columns, data>>

\* getters[filter.columnId]?.(row)
SimpleGetter(cols, columnId, row) ==
  IF \E i \in 1..Len(cols) : cols[i].columnId = columnId
  THEN getValue(row, cols[CHOOSE i \in 1..Len(cols) :
                            cols[i].columnId = columnId].accessor)
  ELSE NullV

\* rowValue ? String(rowValue) : "": null, undefined, 0 and "" give ""
Truthy(v) ==
  /\ v.t # "null"
  /\ v.t = "number" => v.v # 0
  /\ v.t = "string" => v.v # <<>>

SimpleFilterAccepts(row, f, cols) ==
  LET rowValue == SimpleGetter(cols, f.columnId, row)
      rowValueStr == IF Truthy(rowValue) THEN JsString(rowValue) ELSE <<>>
  IN includes(toLowerCase(rowValueStr), toLowerCase(f.value))

applyFilter(rows, filters, cols) ==
  IF Len(filters) = 0 THEN rows
  ELSE SelectSeq(rows, LAMBDA row :
         \A k \in 1..Len(filters) : SimpleFilterAccepts(row, filters[k], cols))

applyPagination(rows, pagination) ==
  LET startIndex == pagination.pageIndex * pagination.pageSize
      endIndex == startIndex + pagination.pageSize
  IN Slice(rows, startIndex, endIndex)

filteredRows == applyFilter(data, state.filters, columns)
paginationRows == applyPagination(filteredRows, state.pagination)

SimpleSetPagination(newPagination) ==
  SimpleDispatch([type |-> "SET_PAGINATION",
                  payload |-> [pagination |-> newPagination]])

onNextPage ==
  SimpleSetPagination([state.pagination EXCEPT !.pageIndex = @ + 1])

onPreviousPage ==
  SimpleSetPagination([state.pagination EXCEPT !.pageIndex = @ - 1])

onFirstPage == SimpleSetPagination([state.pagination EXCEPT !.pageIndex = 0])

\* totalItems % pageSize === 0 ? Math.floor(totalItems / pageSize) - 1
\*                             : Math.floor(totalItems / pageSize)
lastPage ==
  LET totalItems == Len(filteredRows)
  IN IF totalItems % state.pagination.pageSize = 0
     THEN (totalItems \div state.pagination.pageSize) - 1
     ELSE totalItems \div state.pagination.pageSize

onLastPage == SimpleSetPagination([state.pagination EXCEPT !.pageIndex = lastPage])

onRowPerPage(pageSize) ==
  SimpleSetPagination([pageSize |-> pageSize, pageIndex |-> 0])

getCanNextPage == state.pagination.pageIndex # lastPage
getCanPreviousPage == state.pagination.pageIndex # 0

\* the options of the Row per page select
RowPerPageOptions == {10, 25, 50, 100}

\* ---------------------------------------------------------- specifications
InitSort ==
  /\ columns = <<NameCol, AgeCol, CityCol>>
  /\ data = DemoData
  /\ state = createInitialState(columns)
  /\ last = [type |-> "INIT"]

NextSort ==
  \E c \in ColumnIds(columns), m \in BOOLEAN :
    /\ toggleSort(c, m)

SpecSort == InitSort /\ [][NextSort]_vars

\* the sort pipeline over every row array of at most MaxRows rows
SortNames == {StrV(Alice), StrV(Bob)}
SortAges == {NullV, NumV(24), NumV(28)}

RowArrays(names, ages) ==
  UNION { { [i \in 1..k |-> Person(i, f[i][1], f[i][2])] :
              f \in [1..k -> names \X ages] } : k \in 0..MaxRows }

InitSortRows ==
  /\ columns = <<NameCol, AgeCol>>
  /\ data \in RowArrays(SortNames, SortAges)
  /\ state = createInitialState(columns)
  /\ last = [type |-> "INIT"]

SpecSortRows == InitSortRows /\ [][NextSort]_vars

\* the filter pipeline over every row array of at most MaxRows rows; the
\* filter texts are "", "a", "L" and "2"
FilterNames == {StrV(Alice), StrV(Bob), StrV(Carlos)}
FilterAges == {NullV, NumV(28)}
FilterTexts == {<<>>, <<97>>, <<76>>, <<50>>}

InitFilter ==
  /\ columns = <<NameCol, AgeCol>>
  /\ data \in RowArrays(FilterNames, FilterAges)
  /\ state = createInitialState(columns)
  /\ last = [type |-> "INIT"]

NextFilter ==
  \/ \E c \in ColumnIds(columns), t \in FilterTexts :
       /\ setFilter(c, t)
  \/ \E c \in ColumnIds(columns) :
       /\ clearFilter(c)

SpecFilter == InitFilter /\ [][NextFilter]_vars

\* reordering the four demo columns; the indices run from -1 (negative) to
\* the length of columnOrder (one past the last position)
InitReorder ==
  /\ columns = DemoColumns
  /\ data = DemoData
  /\ state = createInitialState(columns)
  /\ last = [type |-> "INIT"]

NextReorder ==
  \E i, j \in -1..Len(state.columnOrder) :
    /\ reorderCenter(i, j)

SpecReorder == InitReorder /\ [][NextReorder]_vars

\* pinning, reordering and hiding two data columns
InitLayout ==
  /\ columns = <<NameCol, AgeCol>>
  /\ data = DemoData
  /\ state = createInitialState(columns)
  /\ last = [type |-> "INIT"]

NextLayout ==
  \/ \E i, j \in -1..Len(state.columnOrder) :
       /\ reorderCenter(i, j)
  \/ \E c \in ColumnIds(columns), side \in PinSides :
       /\ pinColumn(c, side)
  \/ \E c \in ColumnIds(columns), v \in BOOLEAN :
       /\ toggleColumnVisibility(c, v)
  \/ \E v \in BOOLEAN :
       /\ setAllColumnsVisibility(v)

SpecLayout == InitLayout /\ [][NextLayout]_vars

\* the same with a column whose id starts with "__pin"
InitLayoutPin ==
  /\ columns = <<NameCol, AgeCol, PinSelectCol>>
  /\ data = DemoData
  /\ state = createInitialState(columns)
  /\ last = [type |-> "INIT"]

SpecLayoutPin == InitLayoutPin /\ [][NextLayout]_vars

\* resizing the columns of a table with a narrow column
ProposedWidths == {40, 100, 130, 300}

InitResize ==
  /\ columns = <<NameCol, AgeCol, NarrowCol>>
  /\ data = DemoData
  /\ state = createInitialState(columns)
  /\ last = [type |-> "INIT"]

NextResize ==
  \E i \in 1..Len(columns), w \in ProposedWidths :
    /\ resizeColumn(columns[i].id, w, columns[i])

SpecResize == InitResize /\ [][NextResize]_vars

\* paging through the Footer while filtering: twelve rows, the filter texts
\* are "" and "2"
FooterTexts == {<<>>, <<50>>}

InitFooter ==
  /\ columns = <<NameCol, AgeCol>>
  /\ data = TwelvePeople
  /\ state = createInitialState(columns)
  /\ last = [type |-> "INIT"]

NextFooter ==
  \/ /\ FooterFirst
  \/ /\ FooterPrev
  \/ /\ FooterNext
  \/ /\ FooterLast
  \/ \E n \in FooterPageSizes :
       /\ FooterSetPageSize(n)
  \/ \E c \in ColumnIds(columns), t \in FooterTexts :
       /\ setFilter(c, t)
  \/ \E c \in ColumnIds(columns) :
       /\ clearFilter(c)

SpecFooter == InitFooter /\ [][NextFooter]_vars

\* the page slice for every page index up to MaxPageIndex and every page size
\* up to MaxPageSize, over the first n of the twelve people, sorted by age or
\* not, filtered by "2" on age or not
MaxPageIndex == 3
MaxPageSize == 5

InitPage ==
  /\ columns = <<NameCol, AgeCol>>
  /\ data \in {SubSeq(TwelvePeople, 1, n) : n \in 0..Len(TwelvePeople)}
  /\ state = createInitialState(columns)
  /\ last = [type |-> "INIT"]

NextPage ==
  \/ \E i \in 0..MaxPageIndex, n \in 1..MaxPageSize :
       /\ setPagination([pageIndex |-> i, pageSize |-> n])
  \/ /\ toggleSort("age", FALSE)
  \/ /\ setFilter("age", <<50>>)
  \/ /\ clearFilter("age")

SpecPage == InitPage /\ [][NextPage]_vars

\* intents that name a column the table does not define, among intents that
\* name its columns; a resize of an undefined column has no definition to
\* take bounds from (def?.minWidth is undefined)
UnknownId == "ghost"
NoDef == [minWidth |-> Undef, maxWidth |-> Undef]
UnknownTexts == {<<>>, <<97>>}

InitUnknown ==
  /\ columns = <<NameCol, AgeCol>>
  /\ data = DemoData
  /\ state = createInitialState(columns)
  /\ last = [type |-> "INIT"]

NextUnknown ==
  \/ \E c \in {"age", UnknownId}, m \in BOOLEAN :
       /\ toggleSort(c, m)
  \/ \E c \in {"name", UnknownId}, t \in UnknownTexts :
       /\ setFilter(c, t)
  \/ \E c \in {"name", UnknownId} :
       /\ clearFilter(c)
  \/ \E side \in PinSides :
       /\ pinColumn(UnknownId, side)
  \/ /\ resizeColumn(UnknownId, DefaultWidth, NoDef)
  \/ \E v \in BOOLEAN :
       /\ toggleColumnVisibility(UnknownId, v)

SpecUnknown == InitUnknown /\ [][NextUnknown]_vars

\* every case of the reducer on two columns; SET_SORT, SET_SCROLL and an
\* action of no known type, which no intent dispatches, are dispatched as
\* they are, and reorders take
\* in-range indices. The states explored are those that differ from the
\* initial state in at most MaxChanged fields.
MaxChanged == 2

SortPayloads ==
  { <<>>, <<[columnId |-> "name", dir |-> "desc"]>>,
    <<[columnId |-> "age", dir |-> "asc"], [columnId |-> "name", dir |-> "asc"]>> }

PagePayloads ==
  { [pageIndex |-> 0, pageSize |-> 10], [pageIndex |-> 1, pageSize |-> 10] }

ScrollOffsets == {0, 40}
ReducerWidths == {100, 300}

Changed(s) ==
  Cardinality({f \in DOMAIN s : s[f] # createInitialState(columns)[f]})

InitReducer ==
  /\ columns = <<NameCol, AgeCol>>
  /\ data = DemoData
  /\ state = createInitialState(columns)
  /\ last = [type |-> "INIT"]

\* the state after the step differs from the initial state in at most
\* MaxChanged fields
Within == Changed(state') <= MaxChanged

NextReducer ==
  \/ \E p \in SortPayloads :
       Dispatch([type |-> "SET_SORT", payload |-> p]) /\ Within
  \/ \E c \in ColumnIds(columns), m \in BOOLEAN : toggleSort(c, m) /\ Within
  \/ \E c \in ColumnIds(columns) : setFilter(c, <<97>>) /\ Within
  \/ \E c \in ColumnIds(columns) : clearFilter(c) /\ Within
  \/ \E i, j \in 0..(Len(state.columnOrder) - 1) :
       reorderCenter(i, j) /\ Within
  \/ \E side \in PinSides : pinColumn("name", side) /\ Within
  \/ \E w \in ReducerWidths : resizeColumn("age", w, AgeCol) /\ Within
  \/ \E p \in PagePayloads : setPagination(p) /\ Within
  \/ \E l, t \in ScrollOffsets :
       Dispatch([type |-> "SET_SCROLL", left |-> l, top |-> t]) /\ Within
  \/ \E v \in BOOLEAN : toggleColumnVisibility("name", v) /\ Within
  \/ \E v \in BOOLEAN : setAllColumnsVisibility(v) /\ Within
  \/ Dispatch([type |-> "UNKNOWN"]) /\ Within

SpecReducer == InitReducer /\ [][NextReducer]_vars

\* resizing a column whose bounds are each absent, 60 or 120, minWidth above
\* maxWidth included (nothing checks a column definition), next to the age
\* column
ClampBounds == {Undef, Some(60), Some(120)}
ClampWidths == {40, 70, 100, 130, 300}

InitClamp ==
  /\ \E mn, mx \in ClampBounds :
       columns = <<Col("name", KeyAcc("name"), Some(100), mn, mx), AgeCol>>
  /\ data = DemoData
  /\ state = createInitialState(columns)
  /\ last = [type |-> "INIT"]

NextClamp ==
  \E i \in 1..Len(columns), w \in ClampWidths :
    /\ resizeColumn(columns[i].id, w, columns[i])

SpecClamp == InitClamp /\ [][NextClamp]_vars

\* pinning, resizing and hiding three columns
OffsetWidths == {100, 300}

InitOffsets ==
  /\ columns = <<NameCol, AgeCol, CityCol>>
  /\ data = DemoData
  /\ state = createInitialState(columns)
  /\ last = [type |-> "INIT"]

NextOffsets ==
  \/ \E c \in ColumnIds(columns), side \in PinSides :
       /\ pinColumn(c, side)
  \/ \E i \in 1..Len(columns), w \in OffsetWidths :
       /\ resizeColumn(columns[i].id, w, columns[i])
  \/ \E v \in BOOLEAN :
       /\ toggleColumnVisibility("age", v)

SpecOffsets == InitOffsets /\ [][NextOffsets]_vars

\* dragging the center headers of three columns that are pinned, unpinned,
\* hidden and shown; a drag starts on a center header and ends over a column
\* or over nothing
InitDrag ==
  /\ columns = <<NameCol, AgeCol, CityCol>>
  /\ data = DemoData
  /\ state = createInitialState(columns)
  /\ last = [type |-> "INIT"]

NextDrag ==
  \/ \E active \in ColumnIds(centerOrdered),
         over \in ColumnIds(columns) \cup {NoOver} :
       /\ onDragEnd(active, over)
  \/ \E c \in ColumnIds(columns), side \in PinSides :
       /\ pinColumn(c, side)
  \/ \E c \in ColumnIds(columns), v \in BOOLEAN :
       /\ toggleColumnVisibility(c, v)

SpecDrag == InitDrag /\ [][NextDrag]_vars

\* the windows of twelve rows in pages of 5 or 10 and of three columns that
\* are pinned, moved, resized and hidden
VirtualPageSizes == {5, 10}

InitVirtual ==
  /\ columns = <<NameCol, AgeCol, CityCol>>
  /\ data = TwelvePeople
  /\ state = createInitialState(columns)
  /\ last = [type |-> "INIT"]

NextVirtual ==
  \/ \E i \in 0..MaxPageIndex, n \in VirtualPageSizes :
       /\ setPagination([pageIndex |-> i, pageSize |-> n])
  \/ /\ setFilter("age", <<50>>)
  \/ \E side \in PinSides :
       /\ pinColumn("name", side)
  \/ \E j \in 0..(Len(state.columnOrder) - 1) :
       /\ reorderCenter(0, j)
  \/ /\ resizeColumn("age", 300, AgeCol)
  \/ \E v \in BOOLEAN :
       /\ toggleColumnVisibility("city", v)

SpecVirtual == InitVirtual /\ [][NextVirtual]_vars

\* the reducer of the simple table under SET_FILTER actions, the filter
\* texts being "a", "b" and "age"; the filters list is let grow to MaxFilters
\* entries
MaxFilters == 3
SimpleTexts == {<<97>>, <<98>>, <<97, 103, 101>>}

InitSimpleFilter ==
  /\ columns = SimpleColumns
  /\ data = TwelvePeople
  /\ state = SimpleCreateInitialState(<<>>)
  /\ last = [type |-> "INIT"]

NextSimpleFilter ==
  \E c \in {"name", "age"}, t \in SimpleTexts :
    /\ SimpleDispatch([type |-> "SET_FILTER",
                       payload |-> [filter |-> [columnId |-> c, value |-> t]]])
    /\ Len(state'.filters) <= MaxFilters

SpecSimpleFilter == InitSimpleFilter /\ [][NextSimpleFilter]_vars

\* paging through the simple table with its buttons, Previous and Next
\* disabled as the view disables them, over the first n of the twelve
\* people, unfiltered or filtered by "2" on age from the start; page indices
\* are followed from -MaxPageIndex to MaxPageIndex
PageFollowed == state'.pagination.pageIndex \in (0 - MaxPageIndex)..MaxPageIndex

InitSimplePage ==
  /\ columns = SimpleColumns
  /\ data \in {SubSeq(TwelvePeople, 1, n) : n \in 0..Len(TwelvePeople)}
  /\ \E fs \in {<<>>, <<[columnId |-> "age", value |-> <<50>>]>>} :
       state = SimpleCreateInitialState([filters |-> fs])
  /\ last = [type |-> "INIT"]

NextSimplePage ==
  \/ onFirstPage /\ PageFollowed
  \/ getCanPreviousPage /\ onPreviousPage /\ PageFollowed
  \/ getCanNextPage /\ onNextPage /\ PageFollowed
  \/ onLastPage /\ PageFollowed
  \/ \E n \in RowPerPageOptions : onRowPerPage(n) /\ PageFollowed

SpecSimplePage == InitSimplePage /\ [][NextSimplePage]_vars

\* ------------------------------------------------------------------ claims
Range(s) == {s[i] : i \in 1..Len(s)}

\* rows r1 and r2 have the same value under the first n keys of sorts
TieOnKeys(r1, r2, sorts, n) ==
  \A k \in 1..n :
    Getter(getters, sorts[k].columnId, r1) = Getter(getters, sorts[k].columnId, r2)

IsNullAt(r, sorts, k) == Getter(getters, sorts[k].columnId, r).t = "null"

\* str holds sub as a contiguous run of code units
Contains(str, sub) ==
  \E k \in 0..(Len(str) - Len(sub)) :
    \A j \in 1..Len(sub) : str[k + j] = sub[j]

LowerCased(str) ==
  [i \in 1..Len(str) |-> IF str[i] \in 65..90 THEN str[i] + 32 ELSE str[i]]

\* the text of a cell: the empty string for null or undefined, the string
\* itself, or the decimal digits of a number between 0 and 99
CellText(v) ==
  IF v.t = "null" THEN <<>>
  ELSE IF v.t = "string" THEN v.v
  ELSE IF v.v < 10 THEN <<48 + v.v>>
  ELSE <<48 + (v.v \div 10), 48 + (v.v % 10)>>

RowMatches(row, f) ==
  Contains(LowerCased(CellText(Getter(getters, f.columnId, row))),
           LowerCased(f.value))

\* C1: applyFilters retains, in input order, exactly the rows that match
\* every filter entry, a match being that the lower-cased text of the cell
\* (empty for a null value) contains the lower-cased filter text; with the
\* one filter (name, "a") over Alice, Bob, Carlos it retains Alice, Carlos.
C1_FilterRetains ==
  /\ filtered =
       SelectSeq(data, LAMBDA row :
                   \A i \in 1..Len(state.filters) : RowMatches(row, state.filters[i]))
  /\ ( /\ Len(data) = 3
       /\ [i \in 1..3 |-> data[i].name.v] = <<Alice, Bob, Carlos>>
       /\ state.filters = <<[columnId |-> "name", value |-> <<97>>]>> )
     => [i \in 1..Len(filtered) |-> filtered[i].name.v] = <<Alice, Carlos>>

\* the filter (name, "a") applied to Alice, Bob, Carlos
C1_Witness ==
  /\ Len(data) = 3
  /\ [i \in 1..3 |-> data[i].name.v] = <<Alice, Bob, Carlos>>
  /\ state.filters = <<[columnId |-> "name", value |-> <<97>>]>>
  /\ Len(filtered) = 2

\* C6 as stated: the filters hold at most one entry per column and no entry
\* whose text is empty.
C6_NoEmptyEntry ==
  /\ \A i, j \in 1..Len(state.filters) :
       i # j => state.filters[i].columnId # state.filters[j].columnId
  /\ \A i \in 1..Len(state.filters) : state.filters[i].value # <<>>

\* C6 amended: the filters hold at most one entry per column; setFilter
\* stores the entry it is given as the last one, also when its text is empty
\* (setFilter(columnId, "") keeps an entry with empty text, which excludes no
\* row); only clearFilter removes a column's entry.
C6_OnePerColumn ==
  /\ \A i, j \in 1..Len(state.filters) :
       i # j => state.filters[i].columnId # state.filters[j].columnId
  /\ last.type = "SET_FILTER" =>
       /\ Len(state.filters) > 0
       /\ state.filters[Len(state.filters)] = last.filter
       /\ last.filter.value = <<>> =>
            filtered =
              applyFilters(data,
                           SelectSeq(state.filters,
                                     LAMBDA f : f.columnId # last.filter.columnId),
                           getters)
  /\ last.type = "CLEAR_FILTER" =>
       \A i \in 1..Len(state.filters) : state.filters[i].columnId # last.columnId

\* setFilter(name, "") after a filter on age: both entries are held
C6_Witness ==
  /\ last.type = "SET_FILTER"
  /\ last.filter = [columnId |-> "name", value |-> <<>>]
  /\ Len(state.filters) = 2
  /\ Len(filtered) < Len(data)

\* C2: the output of stableMultiSort is a rearrangement of the input in
\* which any two rows that tie on all sort keys keep their input order (rows
\* carry their input position as id), and sorting the output again by the
\* same specification gives the same array; the same holds of the one-column
\* sort of the simple table, for each entry taken as its sort state.
C2_SortStable ==
  LET out == sorted
      n == Len(state.sortBy)
  IN /\ Len(out) = Len(data)
     /\ Range(out) = Range(data)
     /\ \A p, q \in 1..Len(out) :
          (p < q /\ TieOnKeys(out[p], out[q], state.sortBy, n))
            => out[p].id < out[q].id
     /\ stableMultiSort(out, state.sortBy, getters) = out
     /\ \A k \in 1..n :
          LET one == [columnId |-> state.sortBy[k].columnId,
                      direction |-> state.sortBy[k].dir]
              out1 == DataTableSorted(data, columns, one)
          IN /\ Len(out1) = Len(data)
             /\ Range(out1) = Range(data)
             /\ \A p, q \in 1..Len(out1) :
                  (p < q /\ TieOnKeys(out1[p], out1[q], <<state.sortBy[k]>>, 1))
                    => out1[p].id < out1[q].id
             /\ DataTableSorted(out1, columns, one) = out1

\* a sort that moved rows while two rows tie on every key
C2_Witness ==
  /\ Len(state.sortBy) = 2
  /\ sorted # data
  /\ \E p, q \in 1..Len(data) :
       p < q /\ TieOnKeys(data[p], data[q], state.sortBy, 2)

\* the entry as the sort state of the simple table
AsSortState(entry) == [columnId |-> entry.columnId, direction |-> entry.dir]

\* in out, no row defined under the first key of sorts precedes a null one
NullsBeforeDefined(out, sorts) ==
  \A p, q \in 1..Len(out) :
    p < q => ~(~IsNullAt(out[p], sorts, 1) /\ IsNullAt(out[q], sorts, 1))

\* in out, among rows that tie on the keys before the k-th, null values of
\* the k-th key are first when it is ascending and last when it is descending
NullsAsSmallest(out, sorts, k) ==
  \A p, q \in 1..Len(out) :
    (p < q /\ TieOnKeys(out[p], out[q], sorts, k - 1)) =>
      IF sorts[k].dir = "asc"
      THEN ~(~IsNullAt(out[p], sorts, k) /\ IsNullAt(out[q], sorts, k))
      ELSE ~(IsNullAt(out[p], sorts, k) /\ ~IsNullAt(out[q], sorts, k))

\* C3 as stated: under the primary sort key, every row whose value is null
\* comes before every row whose value is defined, whatever the direction.
C3_NullsFirstBothDirections ==
  Len(state.sortBy) > 0 =>
    /\ NullsBeforeDefined(sorted, state.sortBy)
    /\ NullsBeforeDefined(
         DataTableSorted(data, columns, AsSortState(state.sortBy[1])),
         state.sortBy)

\* C3 amended: null is the smallest value and the direction applies to it:
\* for every sort key, among rows that tie on all earlier keys, the rows with
\* a null value come before the rows with a defined value when the key is
\* ascending and after them when it is descending; the one-column sort of
\* the simple table places null values the same way.
C3_NullsSmallest ==
  \A k \in 1..Len(state.sortBy) :
    /\ NullsAsSmallest(sorted, state.sortBy, k)
    /\ NullsAsSmallest(
         DataTableSorted(data, columns, AsSortState(state.sortBy[k])),
         <<state.sortBy[k]>>, 1)

\* a descending sort by age that moved a null age behind a defined one
C3_Witness ==
  /\ state.sortBy = <<[columnId |-> "age", dir |-> "desc"]>>
  /\ Len(data) = 3
  /\ data[1].age.t = "null"
  /\ sorted[3] = data[1]
  /\ sorted[1].age.t = "number"

\* the direction of the column's entry in a sort specification, or "none"
EntryDir(sortBy, columnId) ==
  IF \E i \in 1..Len(sortBy) : sortBy[i] = [columnId |-> columnId, dir |-> "asc"]
  THEN "asc"
  ELSE IF \E i \in 1..Len(sortBy) : sortBy[i] = [columnId |-> columnId, dir |-> "desc"]
       THEN "desc"
       ELSE "none"

IsToggle(a, multi) == a.type = "TOGGLE_SORT" /\ a.multi = multi

\* C4: a replacing toggle (multi = false) leaves a sort specification that
\* holds the toggled column alone: ascending if the column had no entry,
\* descending if its entry was ascending, nothing if it was descending; so
\* three such toggles of a column without entry end with the empty list.
C4_ToggleReplaces ==
  /\ [][IsToggle(last', FALSE) =>
          state'.sortBy =
            CASE EntryDir(state.sortBy, last'.columnId) = "none" ->
                   <<[columnId |-> last'.columnId, dir |-> "asc"]>>
              [] EntryDir(state.sortBy, last'.columnId) = "asc" ->
                   <<[columnId |-> last'.columnId, dir |-> "desc"]>>
              [] OTHER -> <<>>]_vars
  /\ [](\A c \in ColumnIds(columns) :
          EntryDir(state.sortBy, c) = "none" =>
            ToggleSortNext(ToggleSortNext(ToggleSortNext(state.sortBy, c, FALSE),
                                          c, FALSE), c, FALSE) = <<>>)

\* a replacing toggle of a descending column has emptied the specification
C4_Witness ==
  /\ IsToggle(last, FALSE)
  /\ state.sortBy = <<>>

\* the entries of the other columns, in order
Others(sortBy, columnId) == SelectSeq(sortBy, LAMBDA e : e.columnId # columnId)

\* C5 as stated: an additive toggle (multi = true) keeps the other entries;
\* a column without entry is appended as ascending; a column with an entry
\* keeps its position while ascending becomes descending and descending is
\* removed.
C5_PositionPreserved ==
  [][IsToggle(last', TRUE) =>
      LET c == last'.columnId
          i == FindSort(state.sortBy, c)
      IN state'.sortBy =
           CASE EntryDir(state.sortBy, c) = "none" ->
                  Append(state.sortBy, [columnId |-> c, dir |-> "asc"])
             [] EntryDir(state.sortBy, c) = "asc" ->
                  [state.sortBy EXCEPT ![i] = [columnId |-> c, dir |-> "desc"]]
             [] OTHER -> Others(state.sortBy, c)]_vars

\* C5 amended: an additive toggle keeps the other columns' entries in their
\* order; a column without entry is appended at the end as ascending; a
\* column whose entry is ascending is taken out of its position and appended
\* at the end as descending; a column whose entry is descending is removed.
C5_MovesToEnd ==
  [][IsToggle(last', TRUE) =>
      LET c == last'.columnId
          d == EntryDir(state.sortBy, c)
          n == Len(state'.sortBy)
      IN /\ Others(state'.sortBy, c) = Others(state.sortBy, c)
         /\ d = "none" =>
              /\ n = Len(state.sortBy) + 1
              /\ state'.sortBy[n] = [columnId |-> c, dir |-> "asc"]
         /\ d = "asc" =>
              /\ n = Len(state.sortBy)
              /\ state'.sortBy[n] = [columnId |-> c, dir |-> "desc"]
         /\ d = "desc" => state'.sortBy = Others(state.sortBy, c)]_vars

\* an additive toggle has put the toggled column last, descending, behind
\* the entry of another column
C5_Witness ==
  /\ IsToggle(last, TRUE)
  /\ last.columnId = "name"
  /\ state.sortBy = <<[columnId |-> "age", dir |-> "asc"],
                      [columnId |-> "name", dir |-> "desc"]>>

InRange(order, index) == index \in 0..(Len(order) - 1)

\* the sequence without its k-th element
RemoveAt(s, k) == SubSeq(s, 1, k - 1) \o SubSeq(s, k + 1, Len(s))

\* C7: a reorder with both indices in range takes the id at fromIndex out of
\* Column Order and puts it back at toIndex, the other ids keeping their
\* relative order; [name, age, city, title] with reorder(0, 2) gives
\* [age, city, name, title].
C7_ReorderMoves ==
  [][(/\ last'.type = "REORDER_CENTER"
      /\ InRange(state.columnOrder, last'.sourceIndex)
      /\ InRange(state.columnOrder, last'.destIndex)) =>
       LET from == last'.sourceIndex
           to == last'.destIndex
       IN /\ Len(state'.columnOrder) = Len(state.columnOrder)
          /\ state'.columnOrder[to + 1] = state.columnOrder[from + 1]
          /\ RemoveAt(state'.columnOrder, to + 1)
               = RemoveAt(state.columnOrder, from + 1)
          /\ (state.columnOrder = <<"name", "age", "city", "title">>
                /\ from = 0 /\ to = 2)
             => state'.columnOrder = <<"age", "city", "name", "title">>]_vars

\* reorder(0, 2) has moved the first column to the third position
C7_Witness ==
  /\ last = [type |-> "REORDER_CENTER", sourceIndex |-> 0, destIndex |-> 2]
  /\ state.columnOrder = <<"age", "city", "name", "title">>

\* C8: a reorder with an index outside [0, length of Column Order) leaves
\* Column Order as it was, without any undefined element.
C8_OutOfRangeIsNoOp ==
  [][(/\ last'.type = "REORDER_CENTER"
      /\ ~(InRange(state.columnOrder, last'.sourceIndex)
            /\ InRange(state.columnOrder, last'.destIndex))) =>
       /\ state'.columnOrder = state.columnOrder
       /\ Undefined \notin Range(state'.columnOrder)]_vars

\* the number of times id occurs in the order
Occurrences(order, id) == Cardinality({i \in 1..Len(order) : order[i] = id})

C10_WidthsWithinBounds ==
  \A i \in 1..Len(columns) :
    LET c == columns[i]
        w == state.columnWidths[c.id]
    IN /\ c.minWidth # Undef => w >= c.minWidth[1]
       /\ c.maxWidth # Undef => w <= c.maxWidth[1]

\* the last page index of a list of total rows: max(0, ceil(total/pageSize) - 1)
LastPageIndex(total, pageSize) == Max2(0, CeilDiv(total, pageSize) - 1)

\* C11: the page index that the page slice is computed with and that the
\* footer shows lies in [0, max(0, ceil(total/pageSize) - 1)], total being the
\* number of filtered rows, after any sequence of intents.
C11_PageIndexInRange ==
  /\ state.pagination.pageIndex >= 0
  /\ state.pagination.pageIndex
       <= LastPageIndex(Len(filtered), state.pagination.pageSize)

\* the entries whose columnId is the id of a defined column
KnownEntries(entries) ==
  SelectSeq(entries, LAMBDA e : e.columnId \in ColumnIds(columns))

\* C12: a filter entry or a sort entry whose columnId matches no column is
\* ignored by the query pipeline: the filtered rows and the sorted rows are
\* those computed with the entry removed.
C12_UnknownEntriesIgnored ==
  /\ filtered = applyFilters(data, KnownEntries(state.filters), getters)
  /\ sorted = stableMultiSort(filtered, KnownEntries(state.sortBy), getters)

\* the column an action names, if it names one
NamedColumn(a) ==
  IF a.type = "SET_FILTER" THEN {a.filter.columnId}
  ELSE IF a.type \in {"TOGGLE_SORT", "CLEAR_FILTER", "PIN_COLUMN",
                      "RESIZE_COLUMN", "TOGGLE_COLUMN_VISIBILITY"}
       THEN {a.columnId}
       ELSE {}

\* C13: an intent that names a column that is not defined leaves every field
\* of the grid state as it was.
C13_UnknownColumnIsNoOp ==
  [][NamedColumn(last') \cap ColumnIds(columns) = {} /\ NamedColumn(last') # {}
       => state' = state]_vars

RECURSIVE ConcatPages(_, _, _)
\* the page slices of rows for the page indices 0 .. n-1, concatenated
ConcatPages(rows, pageSize, n) ==
  IF n = 0 THEN <<>>
  ELSE ConcatPages(rows, pageSize, n - 1)
         \o PageSlice(rows, [pageIndex |-> n - 1, pageSize |-> pageSize])

\* C14: the page slices of the sorted rows for the page indices 0 .. N-1,
\* N = ceil(length/pageSize), concatenated, are the sorted rows: no row is
\* left out and none comes twice.
C14_PagesCoverRows ==
  LET pageSize == state.pagination.pageSize
  IN ConcatPages(sorted, pageSize, CeilDiv(Len(sorted), pageSize)) = sorted

\* twelve sorted rows cut into pages of five: the last page is partial
C14_Witness ==
  /\ Len(sorted) = 12
  /\ state.sortBy = <<[columnId |-> "age", dir |-> "asc"]>>
  /\ last = [type |-> "SET_PAGINATION",
             payload |-> [pageIndex |-> 1, pageSize |-> 5]]

Ages(rows) == [k \in 1..Len(rows) |-> rows[k].age.v]

\* C15: the page is the contiguous range [pageIndex*pageSize,
\* pageIndex*pageSize + pageSize) of the filtered-then-sorted rows, cut at the
\* end of the rows, in the grid and in the simple table; the twelve people
\* sorted by ascending age in pages of five have ages 24, 26, 27, 28, 29 on
\* page 0 and 41, 45 on page 2.
C15_PageIsRange ==
  LET pageIndex == state.pagination.pageIndex
      pageSize == state.pagination.pageSize
      lo == pageIndex * pageSize
      hi == Min2(lo + pageSize, Len(sorted))
  IN /\ Len(paged) = Max2(0, hi - lo)
     /\ \A k \in 1..Len(paged) : paged[k] = sorted[lo + k]
     /\ DataTablePaged(sorted, pageIndex, pageSize) = paged
     /\ ( /\ data = TwelvePeople
          /\ state.filters = <<>>
          /\ state.sortBy = <<[columnId |-> "age", dir |-> "asc"]>>
          /\ pageSize = 5 )
        => /\ pageIndex = 0 => Ages(paged) = <<24, 26, 27, 28, 29>>
           /\ pageIndex = 2 => Ages(paged) = <<41, 45>>

\* page 2 of the twelve people sorted by ascending age, in pages of five
C15_Witness ==
  /\ data = TwelvePeople
  /\ state.filters = <<>>
  /\ state.sortBy = <<[columnId |-> "age", dir |-> "asc"]>>
  /\ state.pagination = [pageIndex |-> 2, pageSize |-> 5]
  /\ Len(paged) = 2

\* C16: no reducer transition changes in place an array or map of the
\* previous state: with the previous state's sortBy, filters, columnOrder,
\* columnPin, columnWidths, columnVisibility and pagination in the heap cells
\* 1..7 and its object in cell StateAddr, these cells hold after reducer(s, a)
\* what they held before, and the state returned is the next state.
C16_PreviousStateIntact ==
  [][LET run == HeapReducer(HeapOf(state), last')
     IN /\ SubSeq(run.heap, 1, StateAddr) = HeapOf(state)
        /\ StateAt(run.heap, run.ret) = state']_vars

\* an additive toggle has pushed a second entry onto the filtered copy of
\* sortBy
C16_Witness ==
  /\ last = [type |-> "TOGGLE_SORT", columnId |-> "age", multi |-> TRUE]
  /\ state.sortBy = <<[columnId |-> "name", dir |-> "asc"],
                      [columnId |-> "age", dir |-> "asc"]>>

PinAction(columnId, side) ==
  [type |-> "PIN_COLUMN", columnId |-> columnId, side |-> side]

\* C17: pinColumn changes only the pin assignment; Column Order stays as it
\* is, so that pinning a center column and unpinning it again gives the
\* center display order there was before, the column at its index.
C17_PinKeepsOrder ==
  /\ \A c \in ColumnIds(centerOrdered), side \in {"left", "right"} :
       LET pinned == reducer(state, PinAction(c, side))
           unpinned == reducer(pinned, PinAction(c, NullPin))
       IN /\ c \notin ColumnIds(CenterOrdered(columns, pinned))
          /\ CenterOrdered(columns, unpinned) = centerOrdered
  /\ [][last'.type = "PIN_COLUMN"
          => \A f \in DOMAIN state \ {"columnPin"} : state'[f] = state[f]]_vars

\* "name", moved behind "age", was pinned and is unpinned again: it is back
\* behind "age" in the center display order
C17_Witness ==
  /\ last = PinAction("name", NullPin)
  /\ state.columnOrder = <<"age", "name">>
  /\ centerOrdered = <<AgeCol, NameCol>>

\* C18: after any sequence of toggleSort intents, additive or not, from the
\* empty sort specification, no two entries of the sort specification have
\* the same columnId.
C18_OneSortPerColumn ==
  \A i, j \in 1..Len(state.sortBy) :
    state.sortBy[i].columnId = state.sortBy[j].columnId => i = j

\* three columns sorted, the last by an additive toggle of a column that was
\* sorted ascending already
C18_Witness ==
  /\ last = [type |-> "TOGGLE_SORT", columnId |-> "name", multi |-> TRUE]
  /\ Len(state.sortBy) = 3
  /\ state.sortBy[3] = [columnId |-> "name", dir |-> "desc"]

\* C19: for every Column Order and every two different in-range indices i
\* and j, reorderColumn(i, j) followed by reorderColumn(j, i) gives the
\* Column Order back.
C19_ReorderRoundTrip ==
  \A i, j \in 0..(Len(state.columnOrder) - 1) :
    i # j =>
      ReorderNext(ReorderNext(state.columnOrder, i, j), j, i) = state.columnOrder

\* the first column was moved to the third place and back
C19_Witness ==
  /\ last = [type |-> "REORDER_CENTER", sourceIndex |-> 2, destIndex |-> 0]
  /\ state.columnOrder = <<"name", "age", "city", "title">>

\* C20: clamp is idempotent for every width and every pair of bounds, each
\* possibly absent: clamp(clamp(w, min, max), min, max) = clamp(w, min, max);
\* so the width a resize has stored is stored again by a resize to it.
C20_ClampIdempotent ==
  /\ \A i \in 1..Len(columns), w \in ClampWidths :
       LET c == columns[i]
           once == clamp(w, c.minWidth, c.maxWidth)
       IN clamp(once, c.minWidth, c.maxWidth) = once
  /\ last.type = "RESIZE_COLUMN" =>
       LET c == ColumnById(columns, last.columnId)
       IN clamp(last.width, c.minWidth, c.maxWidth) = last.width

\* C21: for every row array and every two single-column filters f1 and f2 on
\* different columns, applyFilters with [f1] and then with [f2] gives what
\* applyFilters gives with [f1, f2] (stated once for each row array, at the
\* start); so do the two filters of a state.
C21_FilterComposition ==
  /\ last.type = "INIT" =>
       \A c1, c2 \in ColumnIds(columns), t1, t2 \in FilterTexts :
         c1 # c2 =>
           LET f1 == [columnId |-> c1, value |-> t1]
               f2 == [columnId |-> c2, value |-> t2]
           IN applyFilters(applyFilters(data, <<f1>>, getters), <<f2>>, getters)
                = applyFilters(data, <<f1, f2>>, getters)
  /\ Len(state.filters) = 2 =>
       filtered = applyFilters(applyFilters(data, <<state.filters[1]>>, getters),
                               <<state.filters[2]>>, getters)

\* two filters are set, each excludes a row the other keeps
C21_Witness ==
  /\ last.type = "SET_FILTER"
  /\ Len(state.filters) = 2
  /\ Len(filtered) < Len(applyFilters(data, <<state.filters[1]>>, getters))
  /\ Len(filtered) < Len(applyFilters(data, <<state.filters[2]>>, getters))

\* the ids of a list of columns, in the order of the list
IdsOf(cols) == [k \in 1..Len(cols) |-> cols[k].id]

\* the first position of x in seq
PositionIn(seq, x) == CHOOSE k \in 1..Len(seq) : seq[k] = x /\ \A j \in 1..(k - 1) : seq[j] # x

\* the ids of list are those of the visible columns pinned to side, each
\* once, and they come in the order of the sequence order
IsRegion(list, side, order) ==
  /\ \A c \in ColumnIds(columns) :
       Occurrences(IdsOf(list), c)
         = IF state.columnVisibility[c] /\ state.columnPin[c] = side THEN 1 ELSE 0
  /\ \A a, b \in 1..Len(list) :
       a < b => /\ Occurrences(order, list[a].id) > 0
                /\ Occurrences(order, list[b].id) > 0
                /\ PositionIn(order, list[a].id) < PositionIn(order, list[b].id)
  /\ \A k \in 1..Len(list) : list[k] = ColumnById(columns, list[k].id)

\* C22: the left-pinned list is the visible columns pinned left in
\* definition order, the right-pinned list the visible columns pinned right
\* in definition order, the center list the visible unpinned columns in the
\* order of Column Order; a hidden column is in none of the three.
C22_ColumnLayout ==
  /\ IsRegion(leftPinned, "left", IdsOf(columns))
  /\ IsRegion(rightPinned, "right", IdsOf(columns))
  /\ IsRegion(centerOrdered, NullPin, state.columnOrder)
  /\ \A c \in ColumnIds(columns) :
       ~state.columnVisibility[c] =>
         c \notin ColumnIds(leftPinned) \cup ColumnIds(rightPinned)
                   \cup ColumnIds(centerOrdered)

\* C27: in every state reachable from the initial state, every visible
\* column of the definition list is in exactly one of the three region
\* lists, a column whose id starts with "__pin" included.
C27_VisibleColumnInOneRegion ==
  \A c \in ColumnIds(columns) :
    state.columnVisibility[c] =>
      Occurrences(IdsOf(leftPinned), c) + Occurrences(IdsOf(centerOrdered), c)
        + Occurrences(IdsOf(rightPinned), c) = 1

\* the sum of the current widths of the columns list[from] .. list[to]
RECURSIVE WidthsBetween(_, _, _)
WidthsBetween(list, from, to) ==
  IF from > to THEN 0
  ELSE state.columnWidths[list[from].id] + WidthsBetween(list, from + 1, to)

\* C23: the offset of the k-th left-pinned column is the sum of the widths
\* of the left-pinned columns before it, the offset of the k-th right-pinned
\* column the sum of the widths of the right-pinned columns after it, and
\* the total width of each region the sum of the widths of its columns.
C23_StickyOffsets ==
  /\ Len(leftOffsets) = Len(leftPinned)
  /\ \A k \in 1..Len(leftPinned) :
       leftOffsets[k] = WidthsBetween(leftPinned, 1, k - 1)
  /\ Len(rightOffsets) = Len(rightPinned)
  /\ \A k \in 1..Len(rightPinned) :
       rightOffsets[k] = WidthsBetween(rightPinned, k + 1, Len(rightPinned))
  /\ totalLeftWidth = WidthsBetween(leftPinned, 1, Len(leftPinned))
  /\ totalCenterWidth = WidthsBetween(centerOrdered, 1, Len(centerOrdered))
  /\ totalRightWidth = WidthsBetween(rightPinned, 1, Len(rightPinned))

\* two columns pinned right, the second resized to 300, one pinned left
C23_Witness ==
  /\ last = [type |-> "RESIZE_COLUMN", columnId |-> "age", width |-> 300]
  /\ rightPinned = <<NameCol, AgeCol>>
  /\ rightOffsets = <<300, 0>>
  /\ leftPinned = <<CityCol>>
  /\ totalRightWidth = 480

\* C24: when a center column A is dropped on a center column B, the intent
\* emitted is reorderColumn(oldIndex, newIndex) with A at Column
\* Order[oldIndex] and B at Column Order[newIndex], in every reachable state.
C24_DragIndicesAreOrderPositions ==
  \A A, B \in ColumnIds(centerOrdered) :
    A # B =>
      LET intent == OnDragEndIntent(columns, state, A, B)
      IN /\ intent.type = "REORDER_CENTER"
         /\ state.columnOrder[intent.sourceIndex + 1] = A
         /\ state.columnOrder[intent.destIndex + 1] = B

\* C25: a drag that ends over a pinned column, over the dragged column
\* itself or over nothing emits no reorder intent, and the grid state stays
\* as it is.
C25_DropRejected ==
  /\ \A active \in ColumnIds(centerOrdered) :
       \A over \in ColumnIds(leftPinned) \cup ColumnIds(rightPinned)
                   \cup {active, NoOver} :
         OnDragEndIntent(columns, state, active, over) = NoIntent
  /\ [][\A active \in ColumnIds(centerOrdered) :
          \A over \in ColumnIds(leftPinned) \cup ColumnIds(rightPinned)
                      \cup {active, NoOver} :
            onDragEnd(active, over) => state' = state /\ last'.type = "DRAG_END"]_vars

\* "age" was dropped on "name", which is pinned left
C25_Witness ==
  /\ last = [type |-> "DRAG_END", active |-> "age", over |-> "name"]
  /\ state.columnPin["name"] = "left"
  /\ state.columnVisibility["name"]

\* the windows a virtualizer of count items can give: the ranges of indices
Windows(count) == {a..b : a, b \in 0..(count - 1)}

\* the ids of Column Order that are ids of visible unpinned columns
VisibleCenterIds ==
  SelectSeq(state.columnOrder,
            LAMBDA id : /\ id \in ColumnIds(columns)
                        /\ state.columnVisibility[id]
                        /\ state.columnPin[id] = NullPin)

\* C26: the row virtualizer counts the rows of the current page slice, not
\* those of the dataset, and renders rows of the page only; the column
\* virtualizer counts the visible center columns and sizes them by their
\* current widths in the order of Column Order; whatever the window, a row
\* renders a cell for every visible pinned column.
C26_VirtualizationScope ==
  LET lo == state.pagination.pageIndex * state.pagination.pageSize
      hi == lo + state.pagination.pageSize
      rows == sorted
      pageRows == paged
      onPage == {rows[k] : k \in {j \in 1..Len(rows) : lo < j /\ j <= hi}}
      centerIds == VisibleCenterIds
      pinnedIds == {id \in ColumnIds(columns) :
                      /\ state.columnVisibility[id]
                      /\ state.columnPin[id] \in {"left", "right"}}
  IN /\ rowVirtualCount = Cardinality(onPage)
     /\ \A window \in Windows(rowVirtualCount) :
          /\ Cardinality(BodyRows(pageRows, window)) = Cardinality(window)
          /\ BodyRows(pageRows, window) \subseteq onPage
     /\ centerColVirtualCount = Len(centerIds)
     /\ \A k \in 1..Len(centerIds) :
          CenterColEstimateSize(k - 1) = state.columnWidths[centerIds[k]]
     /\ \A window \in Windows(centerColVirtualCount) :
          LET cells == RowCellColumns(leftPinned, centerOrdered, rightPinned, window)
          IN pinnedIds \subseteq cells.left \cup cells.right

\* the last page of twelve rows in pages of five, one column pinned left and
\* the two center columns exchanged
C26_Witness ==
  /\ Len(sorted) = 12
  /\ state.pagination = [pageIndex |-> 2, pageSize |-> 5]
  /\ rowVirtualCount = 2
  /\ leftPinned = <<NameCol>>
  /\ centerOrdered = <<CityCol, AgeCol>>
  /\ centerColVirtualCount = 2

\* the fields an action of the given type may change
OwnFields(type) ==
  CASE type \in {"TOGGLE_SORT", "SET_SORT"} -> {"sortBy"}
    [] type \in {"SET_FILTER", "CLEAR_FILTER"} -> {"filters"}
    [] type = "REORDER_CENTER" -> {"columnOrder"}
    [] type = "PIN_COLUMN" -> {"columnPin"}
    [] type = "RESIZE_COLUMN" -> {"columnWidths"}
    [] type = "SET_PAGINATION" -> {"pagination"}
    [] type = "SET_SCROLL" -> {"scrollLeft", "scrollTop"}
    [] type \in {"TOGGLE_COLUMN_VISIBILITY", "SET_ALL_COLUMNS_VISIBILITY"} ->
         {"columnVisibility"}
    [] OTHER -> {}

\* C28: each reducer action changes only its own part of the grid state:
\* the sort actions sortBy, the filter actions filters, REORDER_CENTER
\* columnOrder, PIN_COLUMN columnPin, RESIZE_COLUMN columnWidths,
\* SET_PAGINATION pagination, SET_SCROLL the two scroll offsets, the
\* visibility actions columnVisibility, and an action of no known type
\* nothing; a sort or filter change leaves pageIndex as it is.
C28_ReducerFrame ==
  [][\A f \in DOMAIN state \ OwnFields(last'.type) : state'[f] = state[f]]_vars

\* a toggle of the sort on the second page: the page index is still 1
C28_Witness ==
  /\ last = [type |-> "TOGGLE_SORT", columnId |-> "age", multi |-> FALSE]
  /\ state.sortBy = <<[columnId |-> "age", dir |-> "asc"]>>
  /\ state.pagination = [pageIndex |-> 1, pageSize |-> 10]

\* C29: in the simple table, after any sequence of SET_FILTER actions the
\* filters list holds at most one entry per columnId.
C29_SimpleOneFilterPerColumn ==
  \A i, j \in 1..Len(state.filters) :
    state.filters[i].columnId = state.filters[j].columnId => i = j

\* C30: in the simple table, after any sequence of the page handlers,
\* pageIndex is within [0, max(0, ceil(totalItems/pageSize) - 1)], totalItems
\* being the number of filtered rows, 0 included.
C30_SimplePageIndexInRange ==
  /\ state.pagination.pageIndex >= 0
  /\ state.pagination.pageIndex
       <= Max2(0, CeilDiv(Len(filteredRows), state.pagination.pageSize) - 1)

=============================================================================
